---- MODULE Spec2Model ----
(***************************************************************************)
(* SMS rental engine of auto_bitbrowser: the unified order, the three      *)
(* provider adapters (SMS-Man, 5SIM, Vak-SMS), SMSManager.wait_for_code    *)
(* and the two callers of the repository (the command-line script and the  *)
(* timer-driven widget).                                                   *)
(***************************************************************************)
EXTENDS Integers, Sequences, FiniteSets, TLC

\* ---------------------------------------------------------------- bounds
MaxTimeout == 2    \* largest timeout_seconds handed to wait_for_code
MaxInterval == 2   \* largest check_interval handed to wait_for_code
MaxLatency == 2    \* longest time one check_sms round trip takes
MaxSms == 2        \* longest message list in a vendor response
MaxId == 2         \* vendor order ids are 1..MaxId

\* ------------------------------------------------------- values and enums
None == "None"          \* Python None
Absent == "absent"      \* a key that is missing from a vendor response

SMS_MAN == "sms-man"
FIVE_SIM == "5sim"
VAK_SMS == "vak-sms"
ProviderType == {SMS_MAN, FIVE_SIM, VAK_SMS}

WAITING == "waiting"
RECEIVED == "received"
FINISHED == "finished"
TIMEOUT == "timeout"
CANCELLED == "cancelled"
UNKNOWN == "unknown"
RentStatus == {WAITING, RECEIVED, FINISHED, TIMEOUT, CANCELLED, UNKNOWN}

\* Python truthiness of an Optional[str]: None and "" are falsy
Truthy(v) == v \notin {None, ""}

\* str() of a vendor's integer id
Str(n) == CASE n = 0 -> "0" [] n = 1 -> "1" [] n = 2 -> "2" [] n = 3 -> "3"
            [] OTHER -> "n"

\* datetime.now() at the construction of an order (line 47); a later
\* construction would read another time
Now == "t0"

\* SMSOrder(...) as the adapters construct it: status, sms_text, sms_code
\* and created_at take the dataclass's defaults
SMSOrder(id, phone, country, service, p) ==
    [order_id |-> id, phone_number |-> phone, country |-> country,
     service |-> service, provider |-> p, status |-> WAITING,
     sms_text |-> None, sms_code |-> None, created_at |-> Now]

\* ------------------------------------------------------------- transport
\* what can happen to one request: an answer below 400 with a body that
\* parses ("none"), a status >= 400, an aiohttp.ClientError (connection
\* refused, DNS failure), the session's total timeout running out
\* (asyncio.TimeoutError), and a body declared application/json that does
\* not parse (json.JSONDecodeError out of response.json())
Faults == {"none", "http_error", "client_error", "timeout", "bad_json"}

\* _make_request: the exception it raises for a fault, "ok" when it returns
\* the parsed body.  Its only handler is except aiohttp.ClientError.
MakeRequest(fault) ==
    IF fault = "http_error" THEN "APIRequestError"
    ELSE IF fault = "client_error" THEN "APIRequestError"
    ELSE IF fault = "timeout" THEN "TimeoutError"
    ELSE IF fault = "bad_json" THEN "JSONDecodeError"
    ELSE "ok"

\* ------------------------------------------------------ vendor responses
\* rent: the keys present and their values.  SMS-Man names them
\* error_code/request_id/number, 5SIM id/phone, Vak-SMS error/idNum/tel.
ErrCodes == {"no_numbers", "no_balance", "other"}
Phones == {"+100"}
RentKeys == {"error", "id", "phone"}
RentBodies ==
    {b \in [keys : SUBSET RentKeys, error : ErrCodes \cup {Absent},
            id : 0..MaxId, phone : Phones \cup {Absent}] :
        /\ ("error" \in b.keys) <=> (b.error # Absent)
        /\ ("id" \in b.keys) <=> (b.id # 0)
        /\ ("phone" \in b.keys) <=> (b.phone # Absent)}
NoBody == [keys |-> {}, error |-> Absent, id |-> 0, phone |-> Absent]

\* one message record of a vendor; .get("code") / .get("text") give None for
\* a missing key
MsgCodes == {None, "111", "222"}
MsgTexts == {None, "hello"}
Msgs == [code : MsgCodes, text : MsgTexts]
MsgLists == UNION {[1..n -> Msgs] : n \in 0..MaxSms}

\* SMS-Man get-sms: a JSON list of messages, or some other JSON value
SMSManChecks == [isList : {TRUE}, items : MsgLists]
                  \cup {[isList |-> FALSE, items |-> <<>>]}
\* 5SIM check: an optional sms list and the vendor's own status
FiveSimStatuses == {Absent, "PENDING", "RECEIVED", "FINISHED"}
FiveSimChecks == [sms : MsgLists, status : FiveSimStatuses]
\* Vak-SMS getSmsCode: smsCode absent, null, empty or a code
VakChecks == [smsCode : {Absent, None, "", "111", "222"}]

\* ------------------------------------------------------- SMS-Man adapter
\* what rent_number raises ("none" when it returns an Order)
SMSManRentRaises(body) ==
    IF "error" \in body.keys THEN "APIRequestError"
    ELSE IF "id" \notin body.keys THEN "KeyError"
    ELSE IF "phone" \notin body.keys THEN "KeyError"
    ELSE "none"

SMSManRentOrder(country, service, body) ==
    SMSOrder(Str(body.id), body.phone, country, service, SMS_MAN)

\* an SMS-Man check_sms that builds a fresh SMSOrder for the message it found
SMSManCheckSms_FreshOrder(order, resp) ==
    IF resp.isList /\ Len(resp.items) > 0
    THEN LET last_sms == resp.items[Len(resp.items)]
         IN  [order EXCEPT !.sms_text = last_sms.text,
                           !.sms_code = last_sms.code,
                           !.status = RECEIVED,
                           !.created_at = "t1"]
    ELSE order

SMSManCheckSms(order, resp) ==
    IF resp.isList /\ Len(resp.items) > 0
    THEN LET last_sms == resp.items[Len(resp.items)]
         IN  [order EXCEPT !.sms_text = last_sms.text,
                           !.sms_code = last_sms.code,
                           !.status = RECEIVED]
    ELSE order

\* ---------------------------------------------------------- 5SIM adapter
FiveSimRentRaises(body) ==
    IF "id" \notin body.keys THEN "APIRequestError"
    ELSE IF "phone" \notin body.keys THEN "KeyError"
    ELSE "none"

FiveSimRentOrder(country, service, body) ==
    SMSOrder(Str(body.id), body.phone, country, service, FIVE_SIM)

\* FiveSimCheckSms that assigns code and text from the response on every call
FiveSimCheckSms_ClearsCode(order, resp) ==
    LET sms_list == resp.sms
        o1 == IF Len(sms_list) > 0
              THEN LET last_sms == sms_list[Len(sms_list)]
                   IN  [order EXCEPT !.sms_text = last_sms.text,
                                     !.sms_code = last_sms.code,
                                     !.status = RECEIVED]
              ELSE [order EXCEPT !.sms_text = None, !.sms_code = None]
    IN  IF resp.status = "FINISHED"
        THEN [o1 EXCEPT !.status = FINISHED]
        ELSE o1

\* FiveSimCheckSms that reads the first message of the list
FiveSimCheckSms_FirstSms(order, resp) ==
    LET sms_list == resp.sms
        o1 == IF Len(sms_list) > 0
              THEN LET last_sms == sms_list[1]
                   IN  [order EXCEPT !.sms_text = last_sms.text,
                                     !.sms_code = last_sms.code,
                                     !.status = RECEIVED]
              ELSE order
    IN  IF resp.status = "FINISHED"
        THEN [o1 EXCEPT !.status = FINISHED]
        ELSE o1

FiveSimCheckSms(order, resp) ==
    LET sms_list == resp.sms
        o1 == IF Len(sms_list) > 0
              THEN LET last_sms == sms_list[Len(sms_list)]
                   IN  [order EXCEPT !.sms_text = last_sms.text,
                                     !.sms_code = last_sms.code,
                                     !.status = RECEIVED]
              ELSE order
    IN  IF resp.status = "FINISHED"
        THEN [o1 EXCEPT !.status = FINISHED]
        ELSE o1

\* ------------------------------------------------------- Vak-SMS adapter
\* VakSMSRentRaises without the "no_balance" branch
VakSMSRentRaises_NoBalanceBranch(body) ==
    IF "id" \notin body.keys
    THEN IF body.error = "no_numbers" THEN "NoNumberError"
         ELSE "APIRequestError"
    ELSE IF "phone" \notin body.keys THEN "KeyError"
    ELSE "none"

VakSMSRentRaises(body) ==
    IF "id" \notin body.keys
    THEN IF body.error = "no_numbers" THEN "NoNumberError"
         ELSE IF body.error = "no_balance" THEN "BalanceError"
         ELSE "APIRequestError"
    ELSE IF "phone" \notin body.keys THEN "KeyError"
    ELSE "none"

VakSMSRentOrder(country, service, body) ==
    SMSOrder(Str(body.id), body.phone, country, service, VAK_SMS)

\* VakSMSCheckSms that maps the vendor's {"error": "wait"} answer to Waiting
VakSMSCheckSms_ResetsWaiting(order, resp) ==
    IF resp.smsCode # Absent /\ Truthy(resp.smsCode)
    THEN [order EXCEPT !.sms_code = resp.smsCode,
                       !.status = RECEIVED,
                       !.sms_text = resp.smsCode]
    ELSE [order EXCEPT !.status = WAITING]

VakSMSCheckSms(order, resp) ==
    IF resp.smsCode # Absent /\ Truthy(resp.smsCode)
    THEN [order EXCEPT !.sms_code = resp.smsCode,
                       !.status = RECEIVED,
                       !.sms_text = resp.smsCode]
    ELSE order

\* --------------------------------------------- dispatch on the adapter
\* SMSManager._get_provider binds one adapter; these name what the bound
\* adapter does
RentRaises(p, body) ==
    IF p = SMS_MAN THEN SMSManRentRaises(body)
    ELSE IF p = FIVE_SIM THEN FiveSimRentRaises(body)
    ELSE VakSMSRentRaises(body)

RentOrder(p, country, service, body) ==
    IF p = SMS_MAN THEN SMSManRentOrder(country, service, body)
    ELSE IF p = FIVE_SIM THEN FiveSimRentOrder(country, service, body)
    ELSE VakSMSRentOrder(country, service, body)

CheckBodies(p) ==
    IF p = SMS_MAN THEN SMSManChecks
    ELSE IF p = FIVE_SIM THEN FiveSimChecks
    ELSE VakChecks

ProviderCheckSms(p, order, resp) ==
    IF p = SMS_MAN THEN SMSManCheckSms(order, resp)
    ELSE IF p = FIVE_SIM THEN FiveSimCheckSms(order, resp)
    ELSE VakSMSCheckSms(order, resp)

\* a check response that carries no new message
NoNewMessage(p, resp) ==
    IF p = SMS_MAN THEN ~resp.isList \/ Len(resp.items) = 0
    ELSE IF p = FIVE_SIM THEN Len(resp.sms) = 0
    ELSE resp.smsCode \in {Absent, None, ""}

\* what a check response says: whether it carries a message, the code and
\* text of its last message, and the vendor's own status (5SIM)
NoSeen == [hasMsg |-> FALSE, code |-> None, text |-> None, vstatus |-> Absent]
Summary(p, resp) ==
    IF p = SMS_MAN
    THEN IF resp.isList /\ Len(resp.items) > 0
         THEN [hasMsg |-> TRUE, code |-> resp.items[Len(resp.items)].code,
               text |-> resp.items[Len(resp.items)].text, vstatus |-> Absent]
         ELSE NoSeen
    ELSE IF p = FIVE_SIM
    THEN IF Len(resp.sms) > 0
         THEN [hasMsg |-> TRUE, code |-> resp.sms[Len(resp.sms)].code,
               text |-> resp.sms[Len(resp.sms)].text, vstatus |-> resp.status]
         ELSE [NoSeen EXCEPT !.vstatus = resp.status]
    ELSE IF resp.smsCode \notin {Absent, None, ""}
         THEN [hasMsg |-> TRUE, code |-> resp.smsCode, text |-> resp.smsCode,
               vstatus |-> Absent]
         ELSE NoSeen

\* ------------------------------------------------------------ the manager
\* the methods class SMSManager defines
ManagerMethods == {"get_balance", "rent_number", "wait_for_code"}

\* line 361: the loop condition of wait_for_code
LoopCond(elapsed_s, timeout) == elapsed_s < timeout

\* CodeArrived that looks at the status only
CodeArrived_StatusOnly(o) == o.status = RECEIVED

\* line 364: the test that ends the loop with the order
CodeArrived(o) == o.status = RECEIVED \/ Truthy(o.sms_code)

\* TimedOut that returns the order without writing its status
TimedOut_KeepsStatus(o) == o

\* lines 370-372: the order wait_for_code returns on the deadline
TimedOut(o) == [o EXCEPT !.status = TIMEOUT]

\* wait_for_code that releases the number when the deadline has passed
WaitIssues_CancelsOnDeadline(path) ==
    IF path = "poll" THEN "check_sms"
    ELSE IF path = "deadline" THEN "cancel_rent"
    ELSE "none"

\* the vendor operation each path of wait_for_code calls: check_sms at its
\* poll (line 362), nothing at its sleep (line 368) and on the deadline
\* (lines 370-372)
WaitIssues(path) == IF path = "poll" THEN "check_sms" ELSE "none"

\* wait_for_code that catches the error of a poll and goes on polling
CheckFailed_Swallows(err) == [pc |-> "sleep", exc |-> "none"]

\* line 362 has no handler around it: an exception of check_sms leaves
\* wait_for_code as it is
CheckFailed(err) == [pc |-> "raised", exc |-> err]

\* wait_for_code whose sleep blocks (time.sleep), so that a cancellation is
\* only noticed at the next request
Cancelled_BlockingSleep(at) == IF at = "sleep" THEN "sleep" ELSE "raised"

\* lines 362 and 368 are awaits: the cancellation of the task (Ctrl+C in the
\* script) is raised in wait_for_code at the await it is suspended at
Cancelled(at) == "raised"

\* inputs of the callers
Timeouts == -1..MaxTimeout
Intervals == 0..MaxInterval
Countries == {"us"}
Services == {"tg"}

\* ------------------------------------------------------------------ state
VARIABLES
    caller,           \* which program runs: the script or the widget
    manager,          \* provider_type of the bound SMSManager, None before one exists
    order,            \* the caller's reference: <<>> or <<the SMSOrder>>
    pc,               \* position of the running wait_for_code call
    elapsed,          \* datetime.now() - start_time of that call
    timeout_seconds,  \* its arguments
    check_interval,
    polls,            \* check_sms calls it has made (history, saturates at 2)
    slept,            \* it has slept (history)
    hit,              \* one of its polls made CodeArrived true (history)
    allWaiting,       \* the order was, and every poll left it, Waiting without code (history)
    raised,           \* the exception that left wait_for_code, "none" without one
    stop,             \* the caller has signalled wait_for_code to stop
    checking,         \* widget: the orders of its check_sms requests in flight
    emitted,          \* widget: code_received was emitted for the order (history)
    lastCall,         \* the operation the last step performed and how it ended (history)
    combo_provider,   \* widget: the provider selected in the combo box
    is_monitoring,    \* widget: self.is_monitoring
    timer_active,     \* widget: self.timer is running
    btn_rent,         \* widget: the Rent button is enabled
    btn_cancel,       \* widget: the Cancel/Finish button is enabled
    renting           \* widget: providers of the rent_number calls in flight

vars == <<caller, manager, order, pc, elapsed, timeout_seconds, check_interval,
          polls, slept, hit, allWaiting, raised, stop, checking, emitted,
          lastCall, combo_provider,
          is_monitoring, timer_active, btn_rent, btn_cancel, renting>>

widgetVars == <<combo_provider, is_monitoring, timer_active, btn_rent,
                btn_cancel, renting, checking, emitted>>

waitVars == <<pc, elapsed, timeout_seconds, check_interval, polls, slept,
              hit, allWaiting, raised, stop>>

\* a call that reached the adapter of provider p
CallOf(p, op, outcome, noMsg, body) ==
    [op |-> op, provider |-> p, outcome |-> outcome, noMsg |-> noMsg,
     body |-> body, sent |-> "none", seen |-> NoSeen]

\* the same, for a step that made a request: how _make_request ended
Sent(call, sent) == [call EXCEPT !.sent = sent]

\* the same, for a check_sms that got the response resp
Seen(call, p, resp) == [call EXCEPT !.seen = Summary(p, resp)]

\* any other step
Call(op, outcome, noMsg, body) == CallOf(None, op, outcome, noMsg, body)

O == order[1]
\* a poll result that carries a code: status Received or a non-empty sms_code
Yielded(o) == o.status = RECEIVED \/ o.sms_code \notin {None, ""}
Quiet(o) == o.status = WAITING /\ ~Truthy(o.sms_code)

\* what a step of wait_for_code on the given path leaves in lastCall
WaitCall(path) ==
    IF WaitIssues(path) = "none"
    THEN Call("wait_for_code", "ok", FALSE, NoBody)
    ELSE Sent(CallOf(manager, WaitIssues(path), "ok", FALSE, NoBody), "ok")

Init ==
    /\ caller \in {"script", "widget"}
    /\ manager \in (IF caller = "script" THEN ProviderType ELSE {None})
    /\ combo_provider = SMS_MAN
    /\ is_monitoring = FALSE
    /\ timer_active = FALSE
    /\ btn_rent = TRUE
    /\ btn_cancel = FALSE
    /\ renting = <<>>
    /\ checking = <<>>
    /\ emitted = FALSE
    /\ order = <<>>
    /\ pc = "idle"
    /\ elapsed = 0
    /\ timeout_seconds = 0
    /\ check_interval = 0
    /\ polls = 0
    /\ slept = FALSE
    /\ hit = FALSE
    /\ allWaiting = FALSE
    /\ raised = "none"
    /\ stop = FALSE
    /\ lastCall = Call("init", "ok", FALSE, NoBody)

\* ------------------------------------------- calls made by a script caller
\* SMSManager.get_balance -> provider.get_balance
GetBalance ==
    /\ caller = "script"
    /\ pc = "idle"
    /\ \E fault \in Faults :
         lastCall' = Sent(CallOf(manager, "get_balance", MakeRequest(fault),
                                 FALSE, NoBody), MakeRequest(fault))
    /\ UNCHANGED <<caller, widgetVars, manager, order, waitVars>>

\* SMSManager.rent_number -> provider.rent_number
RentNumber ==
    /\ caller = "script"
    /\ pc = "idle"
    /\ \E fault \in Faults, body \in RentBodies,
          country \in Countries, service \in Services :
         LET sent == MakeRequest(fault)
             raises == IF sent # "ok" THEN sent ELSE RentRaises(manager, body)
         IN  /\ fault # "none" => body = NoBody
             /\ order' = IF raises = "none"
                         THEN <<RentOrder(manager, country, service, body)>>
                         ELSE order
             /\ lastCall' = Sent(CallOf(manager, "rent_number", raises, FALSE,
                                     body), sent)
    /\ UNCHANGED <<caller, widgetVars, manager, waitVars>>

\* manager.provider.check_sms(order), called directly
CheckSms ==
    /\ caller = "script"
    /\ pc = "idle"
    /\ order # <<>>
    /\ \E fault \in Faults, resp \in CheckBodies(manager) :
         LET sent == MakeRequest(fault)
         IN  /\ order' = IF sent = "ok"
                         THEN <<ProviderCheckSms(manager, O, resp)>>
                         ELSE order
             /\ lastCall' =
                  LET c == Sent(CallOf(manager, "check_sms", sent,
                                       sent = "ok" /\ NoNewMessage(manager, resp),
                                       NoBody), sent)
                  IN  IF sent = "ok" THEN Seen(c, manager, resp) ELSE c
    /\ UNCHANGED <<caller, widgetVars, manager, waitVars>>

\* a cancel_rent that marks the order it has cancelled
AfterCancel_MarksCancelled(o, sent) ==
    IF sent = "ok" THEN [o EXCEPT !.status = CANCELLED] ELSE o

\* the cancel_rent of every adapter takes the order_id and returns a bool
\* (lines 188-193, 249-253, 310-315): the caller's order is not touched
AfterCancel(o, sent) == o

\* manager.provider.cancel_rent(order.order_id)
CancelRent ==
    /\ caller = "script"
    /\ pc = "idle"
    /\ order # <<>>
    /\ \E fault \in Faults :
         /\ lastCall' = Sent(CallOf(manager, "cancel_rent",
                                   MakeRequest(fault), FALSE, NoBody),
                            MakeRequest(fault))
         /\ order' = <<AfterCancel(O, MakeRequest(fault))>>
    /\ UNCHANGED <<caller, widgetVars, manager, waitVars>>

\* ---------------------------------------------- SMSManager.wait_for_code
\* line 358: the call starts
WaitStart ==
    /\ caller = "script"
    /\ pc = "idle"
    /\ order # <<>>
    /\ \E t \in Timeouts, i \in Intervals :
         /\ timeout_seconds' = t
         /\ check_interval' = i
    /\ pc' = "cond"
    /\ elapsed' = 0
    /\ polls' = 0
    /\ slept' = FALSE
    /\ hit' = FALSE
    /\ allWaiting' = Quiet(O)
    /\ lastCall' = Call("wait_for_code", "ok", FALSE, NoBody)
    /\ UNCHANGED <<caller, widgetVars, manager, order, raised, stop>>

\* line 361, and lines 370-372 when the deadline has passed
WaitCond ==
    /\ pc = "cond"
    /\ IF LoopCond(elapsed, timeout_seconds)
       THEN /\ pc' = "check"
            /\ order' = order
            /\ lastCall' = Call("wait_for_code", "ok", FALSE, NoBody)
       ELSE /\ pc' = "done"
            /\ order' = <<TimedOut(O)>>
            /\ lastCall' = WaitCall("deadline")
    /\ UNCHANGED <<caller, widgetVars, manager, elapsed, timeout_seconds,
                   check_interval, polls, slept, hit, allWaiting, raised, stop>>

\* lines 362-368: check_sms returns after d time units, then the test
WaitCheckReturn ==
    /\ pc = "check"
    /\ \E d \in 0..MaxLatency, resp \in CheckBodies(manager) :
         LET o == ProviderCheckSms(manager, O, resp)
         IN  /\ order' = <<o>>
             /\ elapsed' = elapsed + d
             /\ hit' = Yielded(o)
             /\ pc' = IF CodeArrived(o) THEN "done" ELSE "sleep"
             /\ allWaiting' = (allWaiting /\ Quiet(o))
             /\ lastCall' = Seen(Sent(CallOf(manager, WaitIssues("poll"), "ok",
                                          NoNewMessage(manager, resp), NoBody),
                                          "ok"), manager, resp)
    /\ polls' = IF polls < 2 THEN polls + 1 ELSE polls
    /\ UNCHANGED <<caller, widgetVars, manager, timeout_seconds,
                   check_interval, slept, raised, stop>>

\* line 362: check_sms raises, and the exception leaves wait_for_code
WaitCheckRaise ==
    /\ pc = "check"
    /\ \E d \in 0..MaxLatency, fault \in Faults \ {"none"} :
         /\ elapsed' = elapsed + d
         /\ lastCall' = Sent(CallOf(manager, WaitIssues("poll"),
                                   MakeRequest(fault), FALSE, NoBody),
                            MakeRequest(fault))
         /\ pc' = CheckFailed(MakeRequest(fault)).pc
         /\ raised' = CheckFailed(MakeRequest(fault)).exc
    /\ allWaiting' = FALSE
    /\ polls' = IF polls < 2 THEN polls + 1 ELSE polls
    /\ UNCHANGED <<caller, widgetVars, manager, order, timeout_seconds,
                   check_interval, slept, hit, stop>>

\* line 368: asyncio.sleep(check_interval) is over
WaitSleep ==
    /\ pc = "sleep"
    /\ elapsed' = elapsed + check_interval
    /\ slept' = TRUE
    /\ pc' = "cond"
    /\ lastCall' = WaitCall("sleep")
    /\ UNCHANGED <<caller, widgetVars, manager, order, timeout_seconds,
                   check_interval, polls, hit, allWaiting, raised, stop>>

\* the caller stops the wait (Ctrl+C, test_sms_manager.py line 52): the task
\* is cancelled at the await it is suspended at
Interrupt ==
    /\ pc \in {"check", "sleep"}
    /\ ~stop
    /\ stop' = TRUE
    /\ pc' = Cancelled(pc)
    /\ raised' = IF Cancelled(pc) = "raised" THEN "CancelledError" ELSE raised
    /\ allWaiting' = FALSE
    /\ lastCall' = Call("interrupt", pc, FALSE, NoBody)
    /\ UNCHANGED <<caller, widgetVars, manager, order, elapsed,
                   timeout_seconds, check_interval, polls, slept, hit>>

\* the caller has the result (or the exception) and goes on
WaitFinish ==
    /\ pc \in {"done", "raised"}
    /\ pc' = "idle"
    /\ elapsed' = 0
    /\ timeout_seconds' = 0
    /\ check_interval' = 0
    /\ polls' = 0
    /\ slept' = FALSE
    /\ hit' = FALSE
    /\ allWaiting' = FALSE
    /\ raised' = "none"
    /\ stop' = FALSE
    /\ lastCall' = Call("wait_for_code", "ok", FALSE, NoBody)
    /\ UNCHANGED <<caller, widgetVars, manager, order>>

\* ------------------------------------------------------------ the widget
MaxInflight == 2   \* rent_number calls of the widget in flight at once
ApiKeys == {"", "key"}

\* an SMSManager that has every method the widget calls
ManagerCall_PassThrough(method) == "bound"

\* attribute lookup of a method on the SMSManager instance
ManagerCall(method) ==
    IF method \in ManagerMethods THEN "bound" ELSE "AttributeError"

\* init_manager: what it raises for the text of the API key field
InitManagerRaises(api_key) == IF api_key = "" THEN "ValueError" ELSE "none"

\* an on_cancel_rent that resets the widget inside its try block
CancelClears_OnlyOnSuccess(outcome) == outcome = "ok"

\* lines 177-183 stand after the try/except of on_cancel_rent: the widget is
\* reset however the cancellation ended
CancelClears(outcome) == TRUE

\* the user picks a provider in the combo box
SelectProvider ==
    /\ caller = "widget"
    /\ \E p \in ProviderType \ {combo_provider} : combo_provider' = p
    /\ lastCall' = Call("select_provider", "ok", FALSE, NoBody)
    /\ UNCHANGED <<caller, manager, order, waitVars, is_monitoring,
                   timer_active, btn_rent, btn_cancel, renting, checking,
                   emitted>>

\* on_check_balance: init_manager, get_balance, and the labels
OnCheckBalance ==
    /\ caller = "widget"
    /\ \E api_key \in ApiKeys, fault \in Faults :
         IF InitManagerRaises(api_key) # "none"
         THEN /\ manager' = manager
              /\ lastCall' = Call("on_check_balance",
                                  InitManagerRaises(api_key), FALSE, NoBody)
         ELSE /\ manager' = combo_provider
              /\ lastCall' = Sent(CallOf(combo_provider, "on_check_balance",
                                         MakeRequest(fault), FALSE, NoBody),
                                  MakeRequest(fault))
    /\ UNCHANGED <<caller, order, waitVars, widgetVars>>

\* on_rent_number up to its await (lines 115-123)
OnRentNumber ==
    /\ caller = "widget"
    /\ btn_rent
    /\ Len(renting) < MaxInflight
    /\ \E api_key \in ApiKeys :
         IF InitManagerRaises(api_key) # "none"
         THEN /\ lastCall' = Call("on_rent_number",
                                  InitManagerRaises(api_key), FALSE, NoBody)
              /\ UNCHANGED <<manager, btn_rent, renting>>
         ELSE /\ manager' = combo_provider
              /\ btn_rent' = FALSE
              /\ renting' = Append(renting, combo_provider)
              /\ lastCall' = Call("on_rent_number", "ok", FALSE, NoBody)
    /\ UNCHANGED <<caller, order, waitVars, combo_provider, is_monitoring,
                   timer_active, btn_cancel, checking, emitted>>

\* on_rent_number from the return of rent_number on (lines 123-135)
OnRentReturn ==
    /\ caller = "widget"
    /\ \E k \in 1..Len(renting), fault \in Faults, body \in RentBodies,
          country \in Countries, service \in Services :
         LET p == renting[k]
             sent == MakeRequest(fault)
             raises == IF sent # "ok" THEN sent ELSE RentRaises(p, body)
         IN  /\ fault # "none" => body = NoBody
             /\ renting' = SubSeq(renting, 1, k - 1)
                             \o SubSeq(renting, k + 1, Len(renting))
             /\ lastCall' = Sent(CallOf(p, "rent_number", raises, FALSE, body),
                                 sent)
             /\ IF raises = "none"
                THEN /\ order' = <<RentOrder(p, country, service, body)>>
                     /\ btn_cancel' = TRUE
                     /\ is_monitoring' = TRUE
                     /\ timer_active' = TRUE
                     /\ btn_rent' = btn_rent
                     /\ emitted' = FALSE
                ELSE /\ btn_rent' = TRUE
                     /\ UNCHANGED <<order, btn_cancel, is_monitoring,
                                    timer_active, emitted>>
    /\ UNCHANGED <<caller, manager, waitVars, combo_provider, checking>>

\* check_sms_status: a run of the handler started by the timer (lines
\* 139-145, 164-165), or the rest of a run whose check_sms has returned
\* (lines 145-165)
CheckSmsStatus ==
    /\ caller = "widget"
    /\ \/ /\ timer_active
          /\ IF order = <<>> \/ ~is_monitoring
             THEN /\ timer_active' = FALSE
                  /\ lastCall' = Call("check_sms_status", "stopped", FALSE,
                                      NoBody)
                  /\ UNCHANGED checking
             ELSE IF ManagerCall("check_sms") = "AttributeError"
             THEN \* caught by the handler's except Exception, and logged
                  /\ lastCall' = CallOf(manager, "check_sms_status",
                                        "AttributeError", FALSE, NoBody)
                  /\ UNCHANGED <<timer_active, checking>>
             ELSE /\ Len(checking) < MaxInflight
                  /\ checking' = Append(checking, O)
                  /\ lastCall' = CallOf(manager, "check_sms_status", "sent",
                                        FALSE, NoBody)
                  /\ UNCHANGED timer_active
          /\ UNCHANGED <<order, is_monitoring, btn_rent, emitted>>
       \/ /\ checking # <<>>
          /\ \E k \in 1..Len(checking), fault \in Faults,
                resp \in CheckBodies(manager) :
               LET sent == MakeRequest(fault)
                   o == ProviderCheckSms(manager, checking[k], resp)
                   got == CodeArrived(o)
                   halt == got \/ o.status = TIMEOUT
               IN  /\ checking' = SubSeq(checking, 1, k - 1)
                                    \o SubSeq(checking, k + 1, Len(checking))
                   /\ lastCall' = CallOf(manager, "check_sms_status", sent,
                                         sent = "ok"
                                           /\ NoNewMessage(manager, resp),
                                         NoBody)
                   /\ IF sent = "ok"
                      THEN /\ order' = <<o>>
                           /\ emitted' = (emitted \/ got)
                           /\ is_monitoring' = (is_monitoring /\ ~halt)
                           /\ timer_active' = (timer_active /\ ~halt)
                           /\ btn_rent' = (btn_rent \/ halt)
                      ELSE UNCHANGED <<order, emitted, is_monitoring,
                                       timer_active, btn_rent>>
    /\ UNCHANGED <<caller, manager, waitVars, combo_provider, btn_cancel,
                   renting>>

\* on_cancel_rent
OnCancelRent ==
    /\ caller = "widget"
    /\ btn_cancel
    /\ LET outcome == IF order = <<>> THEN "skipped"
                      ELSE IF ManagerCall("cancel_rent") = "AttributeError"
                      THEN "AttributeError"
                      ELSE "ok"
       IN  /\ lastCall' = CallOf(manager, "on_cancel_rent", outcome, FALSE,
                                 NoBody)
           /\ IF CancelClears(outcome)
              THEN /\ is_monitoring' = FALSE
                   /\ timer_active' = FALSE
                   /\ btn_rent' = TRUE
                   /\ btn_cancel' = FALSE
                   /\ order' = <<>>
                   /\ emitted' = FALSE
              ELSE UNCHANGED <<is_monitoring, timer_active, btn_rent,
                               btn_cancel, order, emitted>>
    /\ UNCHANGED <<caller, manager, waitVars, combo_provider, renting,
                   checking>>

WaitNext == WaitCond \/ WaitCheckReturn \/ WaitCheckRaise \/ WaitSleep

Next ==
    \/ GetBalance
    \/ RentNumber
    \/ CheckSms
    \/ CancelRent
    \/ WaitStart
    \/ WaitCond
    \/ WaitCheckReturn
    \/ WaitCheckRaise
    \/ WaitSleep
    \/ Interrupt
    \/ WaitFinish
    \/ SelectProvider
    \/ OnCheckBalance
    \/ OnRentNumber
    \/ OnRentReturn
    \/ CheckSmsStatus
    \/ OnCancelRent

Spec == Init /\ [][Next]_vars

TypeOK ==
    /\ manager \in ProviderType \cup {None}
    /\ Len(order) <= 1
    /\ order # <<>> => O.status \in RentStatus
    /\ pc \in {"idle", "cond", "check", "sleep", "done", "raised"}

\* the script's wait_for_code makes progress: the event loop resumes the
\* coroutine when a request or a sleep is over
FairSpec == Spec /\ WF_vars(WaitNext)

\* the widget's QTimer keeps firing while it is active (line 131:
\* timer.start(5000))
WidgetFairSpec == Spec /\ WF_vars(CheckSmsStatus)

TypedErrors == {"APIRequestError", "NoNumberError", "BalanceError"}
Terminal == {RECEIVED, FINISHED, TIMEOUT, CANCELLED}
PollingOps == {"check_sms", "wait_for_code"}

\* ----------------------------------------------------------------- claims

\* C1 (as claimed): in every reachable state of an order, a non-empty
\* sms_code implies status == Received.
C1_CodeImpliesReceived ==
    (order # <<>> /\ Truthy(O.sms_code)) => O.status = RECEIVED

\* C2 (as claimed): once the status is Received, Finished, Timeout or
\* Cancelled, no later check_sms or wait_for_code step changes it.
C2_TerminalNeverChanges ==
    [][(/\ order # <<>>
        /\ order' # <<>>
        /\ lastCall'.op \in PollingOps
        /\ O.status \in Terminal) => order'[1].status = O.status]_vars

\* C2 (amended): once the status of an order has left Waiting, no later
\* check_sms or wait_for_code step returns it to Waiting.
C2_NeverBackToWaiting ==
    [][(/\ order # <<>>
        /\ order' # <<>>
        /\ lastCall'.op \in PollingOps
        /\ O.status # WAITING) => order'[1].status # WAITING]_vars

\* C2 witness: a check_sms has run on an order that wait_for_code had timed out
C2_Witness ==
    /\ order # <<>>
    /\ O.status = TIMEOUT
    /\ lastCall.op = "check_sms"
    /\ lastCall.outcome = "ok"
    /\ pc = "idle"

\* C3: once a poll of wait_for_code yields status Received or a non-empty
\* code, wait_for_code is at its return, with no sleep and no poll after it;
\* when that poll is the first one, it has not slept at all.
C3_ReturnsAtOnce ==
    hit => (pc = "done" /\ (polls = 1 => ~slept))

\* C3 witness: the first poll brought a code under a vendor status that is
\* not Received, and wait_for_code returned without sleeping
C3_Witness ==
    /\ pc = "done"
    /\ hit
    /\ polls = 1
    /\ ~slept
    /\ O.status = FINISHED

\* C4: with timeout >= 1 and interval >= 1, an order that starts Waiting
\* without code and polls that all leave it so, wait_for_code returns, and
\* the order it returns has status Timeout and no code.
C4_TimeoutPath ==
    (pc = "cond" /\ timeout_seconds >= 1 /\ check_interval >= 1 /\ allWaiting)
      ~> (~allWaiting
            \/ (pc = "done" /\ O.status = TIMEOUT /\ ~Truthy(O.sms_code)))

\* C4 witness: wait_for_code returned Timeout after polls that all found
\* the order Waiting
C4_Witness ==
    /\ pc = "done"
    /\ allWaiting
    /\ polls >= 1
    /\ slept
    /\ timeout_seconds >= 1
    /\ check_interval >= 1
    /\ O.status = TIMEOUT
    /\ ~Truthy(O.sms_code)

\* C5 (as claimed): wait_for_code returns within timeout + interval of the
\* start of its loop, and strictly sooner when a code arrived.
C5_ReturnsInTime ==
    (pc = "done" /\ timeout_seconds >= 0) =>
        /\ elapsed <= timeout_seconds + check_interval
        /\ (hit /\ check_interval >= 1) =>
               elapsed < timeout_seconds + check_interval

\* C6 (as claimed): an order returned by wait_for_code has status Received
\* or Timeout.
C6_ReceivedOrTimeout ==
    pc = "done" => O.status \in {RECEIVED, TIMEOUT}

\* C7 (as claimed): a check_sms or cancel_rent the widget invokes on the
\* Manager is passed through to the bound adapter.
C7_PassThrough ==
    lastCall.op \in {"check_sms_status", "on_cancel_rent"}
        => lastCall.outcome # "AttributeError"

\* C8: a check_sms whose response carries no new message leaves a non-empty
\* sms_code and its sms_text as they were; on SMS-Man it also leaves the
\* status as it was.
C8_NoDowngrade ==
    [][(/\ order # <<>>
        /\ order' # <<>>
        /\ lastCall'.op = "check_sms"
        /\ lastCall'.outcome = "ok"
        /\ lastCall'.noMsg)
       => /\ Truthy(O.sms_code) =>
               /\ order'[1].sms_code = O.sms_code
               /\ order'[1].sms_text = O.sms_text
          /\ lastCall'.provider = SMS_MAN => order'[1].status = O.status]_vars

\* C8 witness: an order that holds a code after a check_sms without message
C8_Witness ==
    /\ order # <<>>
    /\ Truthy(O.sms_code)
    /\ lastCall.op = "check_sms"
    /\ lastCall.outcome = "ok"
    /\ lastCall.noMsg

\* C9 (as claimed): a rent_number whose response lacks a required success
\* key ends in a typed SMS error.
C9_TypedError ==
    (/\ lastCall.op = "rent_number"
     /\ lastCall.sent = "ok"
     /\ ~({"id", "phone"} \subseteq lastCall.body.keys))
        => lastCall.outcome \in TypedErrors

\* C10: Vak-SMS rent_number on a response without idNum raises NoNumberError
\* for "no_numbers", BalanceError for "no_balance", and APIRequestError for
\* any other or absent error.
C10_VakErrorMapping ==
    (/\ lastCall.op = "rent_number"
     /\ lastCall.provider = VAK_SMS
     /\ lastCall.sent = "ok"
     /\ "id" \notin lastCall.body.keys)
        => lastCall.outcome =
             (CASE lastCall.body.error = "no_numbers" -> "NoNumberError"
                [] lastCall.body.error = "no_balance" -> "BalanceError"
                [] OTHER -> "APIRequestError")

\* C10 witness: a Vak-SMS rent answered {"error": "no_balance"}
C10_Witness ==
    /\ lastCall.op = "rent_number"
    /\ lastCall.provider = VAK_SMS
    /\ lastCall.sent = "ok"
    /\ lastCall.body.keys = {"error"}
    /\ lastCall.body.error = "no_balance"
    /\ lastCall.outcome = "BalanceError"

\* C14 (as claimed): every request the transport helper makes ends in parsed
\* data or in APIRequestError, so a caller sees no failure of another kind.
C14_OnlyRequestError ==
    lastCall.sent \in {"none", "ok", "APIRequestError"}

\* C11: a 5SIM check_sms whose sms list is not empty leaves the code and text
\* of the last element in the order, with status Received unless the vendor
\* status is FINISHED; a vendor status FINISHED gives status Finished and
\* keeps the code and text of this or of an earlier call.
C11_FiveSimLastWins ==
    [][(/\ order # <<>>
        /\ order' # <<>>
        /\ lastCall'.op = "check_sms"
        /\ lastCall'.provider = FIVE_SIM
        /\ lastCall'.sent = "ok")
       => /\ lastCall'.seen.hasMsg =>
               /\ order'[1].sms_code = lastCall'.seen.code
               /\ order'[1].sms_text = lastCall'.seen.text
          /\ (lastCall'.seen.hasMsg /\ lastCall'.seen.vstatus # "FINISHED")
               => order'[1].status = RECEIVED
          /\ lastCall'.seen.vstatus = "FINISHED" =>
               /\ order'[1].status = FINISHED
               /\ ~lastCall'.seen.hasMsg =>
                     /\ order'[1].sms_code = O.sms_code
                     /\ order'[1].sms_text = O.sms_text]_vars

\* C11 witness: a 5SIM order that holds the code of an earlier call after a
\* check_sms that brought no message and the vendor status FINISHED
C11_Witness ==
    /\ order # <<>>
    /\ lastCall.op = "check_sms"
    /\ lastCall.provider = FIVE_SIM
    /\ lastCall.sent = "ok"
    /\ ~lastCall.seen.hasMsg
    /\ lastCall.seen.vstatus = "FINISHED"
    /\ O.status = FINISHED
    /\ O.sms_code = "222"

\* C12: a step of wait_for_code calls no vendor operation but check_sms at
\* its poll, and writes nothing of the order but the result of that poll
\* and the status on the deadline: it never issues cancel_rent.
C12_WaitOnlyPolls ==
    [][(pc # "idle") =>
         /\ lastCall'.op \in {"check_sms", "wait_for_code", "interrupt"}
         /\ lastCall'.op = "check_sms" => pc = "check"
         /\ manager' = manager
         /\ pc \notin {"check", "cond"} => order' = order
         /\ pc = "cond" =>
               order' \in {order, <<[O EXCEPT !.status = TIMEOUT]>>}]_vars

\* C12 witness: wait_for_code has returned on the deadline after a poll
C12_Witness ==
    /\ pc = "done"
    /\ polls >= 1
    /\ ~hit
    /\ O.status = TIMEOUT
    /\ lastCall.op = "wait_for_code"

\* C13: when a poll of wait_for_code fails, wait_for_code ends with that
\* same exception, without another poll or sleep and without writing the
\* order.
C13_ErrorPropagates ==
    [][/\ (pc = "check" /\ lastCall'.op = "check_sms"
                        /\ lastCall'.sent # "ok") =>
            /\ pc' = "raised"
            /\ raised' = lastCall'.sent
            /\ order' = order
       /\ pc = "raised" => (pc' = "idle" /\ order' = order)]_vars

\* C13 witness: a poll after a sleep failed and its APIRequestError left
\* wait_for_code, the order still Waiting
C13_Witness ==
    /\ pc = "raised"
    /\ raised = "APIRequestError"
    /\ lastCall.op = "check_sms"
    /\ slept
    /\ O.status = WAITING

\* C15: once the caller has signalled the stop, wait_for_code has stopped:
\* it makes no further poll and does not finish its sleep.
C15_StopsAtOnce ==
    stop => (pc = "raised" /\ raised = "CancelledError")

\* C15 witness: the wait was stopped in its sleep
C15_Witness ==
    /\ stop
    /\ pc = "raised"
    /\ lastCall.op = "interrupt"
    /\ lastCall.outcome = "sleep"
    /\ polls >= 1

\* C17: a step of check_sms, wait_for_code or cancel_rent (the widget's
\* timer poll included) leaves order_id, phone_number, provider, country,
\* service and created_at of the order as the rent made them.
C17_IdentityFrozen ==
    [][(/\ order # <<>>
        /\ order' # <<>>
        /\ lastCall'.op \in {"check_sms", "wait_for_code", "cancel_rent",
                             "check_sms_status"})
       => /\ order'[1].order_id = O.order_id
          /\ order'[1].phone_number = O.phone_number
          /\ order'[1].provider = O.provider
          /\ order'[1].country = O.country
          /\ order'[1].service = O.service
          /\ order'[1].created_at = O.created_at]_vars

\* C17 witness: a check_sms has stored a message in an order that still
\* carries the id, the number and the creation time of its rent
C17_Witness ==
    /\ order # <<>>
    /\ lastCall.op = "check_sms"
    /\ lastCall.sent = "ok"
    /\ O.status = RECEIVED
    /\ O.sms_code = "111"
    /\ O.phone_number = "+100"
    /\ O.created_at = Now

\* C16 (as claimed): the widget's timer poll ends like wait_for_code: unless
\* the user cancels the order, monitoring stops with the order Received or
\* Timeout.
C16_WidgetStopsLikeWait ==
    (caller = "widget" /\ order # <<>> /\ is_monitoring)
        ~> (order = <<>>
              \/ (~is_monitoring /\ O.status \in {RECEIVED, TIMEOUT}))

C20_ManagerOfOrder ==
    (/\ lastCall.op = "check_sms_status"
     /\ lastCall.outcome # "stopped"
     /\ order # <<>>) => lastCall.provider = O.provider

\* C21: an order only ever holds the status Waiting, Received, Finished or
\* Timeout, never Cancelled or Unknown; and a cancel_rent that succeeds
\* leaves the status of the order as it was.
C21_StatusSet ==
    /\ [](order # <<>> => O.status \in {WAITING, RECEIVED, FINISHED, TIMEOUT})
    /\ [][(/\ order # <<>>
            /\ order' # <<>>
            /\ lastCall'.op = "cancel_rent"
            /\ lastCall'.sent = "ok") => order'[1].status = O.status]_vars

\* C21 witness: a cancel_rent has succeeded on an order that was Received
\* and still is
C21_Witness ==
    /\ order # <<>>
    /\ lastCall.op = "cancel_rent"
    /\ lastCall.sent = "ok"
    /\ O.status = RECEIVED
    /\ Truthy(O.sms_code)

====
